---- MODULE Spec2Model ----
(***************************************************************************)
(* Model of cryptopanic.py: the URL normaliser, the title fingerprinter,   *)
(* the DedupeStore (in-memory and Redis backends), the article-text        *)
(* extraction chain and the polling loop of on_ready.                      *)
(*                                                                         *)
(* A Python str is modelled as a sequence of one-character strings, so     *)
(* that lower(), endswith(), split(), sorting and slicing are computed     *)
(* character by character as the code computes them.                       *)
(***************************************************************************)
EXTENDS Integers, Sequences, FiniteSets, TLC

VARIABLES
    n_pc, n_url, n_once, n_twice,     \* normalize_url applied once and twice to an input URL
    url_set, title_fps,               \* DedupeStore, in-memory backend: self.url_set, self.title_fps
    redis_urls, redis_titles,         \* DedupeStore, Redis backend: the two Redis sets
    s_op, s_arg, s_added,             \* the store's last call, its argument, every add_title so far
    e_pc, e_traf, e_bs, e_page,       \* extraction: which libraries were imported, the page
    e_meta, e_text,                   \* extraction: meta_description's result, the text chosen
    pc,                               \* on_ready: where the polling loop stands
    ALLOW_UNDATED,                    \* configuration: undated items pass the recency filter
    trafilatura, BeautifulSoup,       \* whether the optional extractors were imported
    cycles,                           \* cycles started so far
    answered,                         \* the feeds whose fetch_rss returned in this cycle
    fresh, idx, posted,               \* the cycle's candidates, the one at hand, posts this cycle
    fetched, synopsis, canonical,     \* what build_synopsis_and_canonical gave for the candidate
    sent,                             \* the embed last handed to channel.send
    invoked, returned,                \* per normalized link: calls of post_embed, and returns
    t_pc, t_text,                     \* a text, and how far the text functions were applied to it
    t_once, t_twice, t_sum,           \* clean_text applied once and twice; summarize's result
    q_pc, q_a, q_b,                   \* two URLs, in parts, the second a variant of the first
    q_ka, q_kb,                       \* their keys: normalize_url of each
    f_pc, f_item, f_libs,             \* fetch_text for an item's page: where it stands, the item
    f_attempt, f_requests, f_slept,   \* the loop variable, requests made, the delays waited
    f_out                             \* what build_synopsis_and_canonical returned

nvars == <<n_pc, n_url, n_once, n_twice>>
svars == <<url_set, title_fps, redis_urls, redis_titles, s_op, s_arg, s_added>>
evars == <<e_pc, e_traf, e_bs, e_page, e_meta, e_text>>
store == <<url_set, title_fps>>
rvars == <<redis_urls, redis_titles, s_op, s_arg, s_added>>
lvars == <<pc, ALLOW_UNDATED, trafilatura, BeautifulSoup, cycles, answered, fresh, idx, posted,
           fetched, synopsis, canonical, sent, invoked, returned>>
tvars == <<t_pc, t_text, t_once, t_twice, t_sum>>
qvars == <<q_pc, q_a, q_b, q_ka, q_kb>>
fvars == <<f_pc, f_item, f_libs, f_attempt, f_requests, f_slept, f_out>>
hvars == <<tvars, qvars, fvars>>
vars == <<nvars, svars, evars, lvars, hvars>>

-----------------------------------------------------------------------------
(* Characters and strings *)

\* The characters of the model, in code-point order (the order Python's str
\* comparison uses).
Alphabet ==
    <<"\t","\n"," ","!","#","$","%","&","'","+",",","-",".","/",
      "0","1","2","3","4","5","6","7","8","9",":","=","?",
      "A","B","C","D","E","F","G","H","I","J","K","L","M",
      "N","O","P","Q","R","S","T","U","V","W","X","Y","Z","_",
      "a","b","c","d","e","f","g","h","i","j","k","l","m",
      "n","o","p","q","r","s","t","u","v","w","x","y","z">>

Chars == {Alphabet[i] : i \in 1..Len(Alphabet)}

Ord == [c \in Chars |-> CHOOSE i \in 1..Len(Alphabet) : Alphabet[i] = c]

UpperCase == {"A","B","C","D","E","F","G","H","I","J","K","L","M",
              "N","O","P","Q","R","S","T","U","V","W","X","Y","Z"}
LowerCase == {"a","b","c","d","e","f","g","h","i","j","k","l","m",
              "n","o","p","q","r","s","t","u","v","w","x","y","z"}
Digits    == {"0","1","2","3","4","5","6","7","8","9"}
WhiteSpace == {" ", "\t", "\n"}

\* str.lower() on one character: the lower-case letters start 27 places
\* after the upper-case ones in Alphabet ("_" sits between the two runs).
LowerChar(c) == IF c \in UpperCase THEN Alphabet[Ord[c] + 27] ELSE c

\* str.lower()
Lower(s) == [i \in 1..Len(s) |-> LowerChar(s[i])]

\* s[:n] and s[n:] for 0 <= n
Take(s, n) == SubSeq(s, 1, IF n < Len(s) THEN n ELSE Len(s))
Drop(s, n) == SubSeq(s, n + 1, Len(s))

\* s.endswith(suf), s.startswith(pre)
EndsWith(s, suf) ==
    Len(s) >= Len(suf) /\ SubSeq(s, Len(s) - Len(suf) + 1, Len(s)) = suf
StartsWith(s, pre) == Len(s) >= Len(pre) /\ SubSeq(s, 1, Len(pre)) = pre

\* The least index of s holding a character of C, 0 when there is none
\* (s.find(c) + 1).
FindAny(s, C) ==
    IF \E i \in 1..Len(s) : s[i] \in C
    THEN CHOOSE i \in 1..Len(s) : s[i] \in C /\ \A j \in 1..(i - 1) : s[j] \notin C
    ELSE 0

\* s.split(sep) for a one-character separator: empty pieces are kept.
RECURSIVE SplitOn(_, _)
SplitOn(s, sep) ==
    LET i == FindAny(s, {sep})
    IN  IF i = 0 THEN <<s>>
        ELSE <<SubSeq(s, 1, i - 1)>> \o SplitOn(Drop(s, i), sep)

\* s.split(): pieces between runs of whitespace, no empty piece.
RECURSIVE SplitWS(_)
SplitWS(s) ==
    IF s = <<>> THEN <<>>
    ELSE IF s[1] \in WhiteSpace
         THEN SplitWS(Drop(s, Cardinality({i \in 1..Len(s) :
                                             \A j \in 1..i : s[j] \in WhiteSpace})))
    ELSE LET i == FindAny(s, WhiteSpace)
         IN  IF i = 0 THEN <<s>>
             ELSE <<SubSeq(s, 1, i - 1)>> \o SplitWS(Drop(s, i))

\* sep.join(parts)
RECURSIVE Join(_, _)
Join(parts, sep) ==
    IF parts = <<>> THEN <<>>
    ELSE IF Len(parts) = 1 THEN parts[1]
    ELSE parts[1] \o sep \o Join(Tail(parts), sep)

\* a < b for Python strings: lexicographic by code point.
RECURSIVE StrLess(_, _)
StrLess(a, b) ==
    IF b = <<>> THEN FALSE
    ELSE IF a = <<>> THEN TRUE
    ELSE IF a[1] = b[1] THEN StrLess(Tail(a), Tail(b))
    ELSE Ord[a[1]] < Ord[b[1]]

Range(s) == {s[i] : i \in 1..Len(s)}

\* sorted(S) for a set of strings.
RECURSIVE SortedStrs(_)
SortedStrs(S) ==
    IF S = {} THEN <<>>
    ELSE LET m == CHOOSE x \in S : \A y \in S \ {x} : StrLess(x, y)
         IN  <<m>> \o SortedStrs(S \ {m})

-----------------------------------------------------------------------------
(* urllib.parse, as normalize_url uses it *)

SchemeChars == UpperCase \cup LowerCase \cup Digits \cup {"+", "-", "."}

\* urlsplit's scheme step: the text before the first ":" is the scheme when
\* it starts with a letter and holds only scheme characters.
HasScheme(url) ==
    LET i == FindAny(url, {":"})
    IN  /\ i > 1
        /\ url[1] \in UpperCase \cup LowerCase
        /\ \A j \in 1..(i - 1) : url[j] \in SchemeChars

\* s.partition(c)[0] and s.partition(c)[2] for a character c
Before(s, c) == IF FindAny(s, {c}) = 0 THEN s ELSE SubSeq(s, 1, FindAny(s, {c}) - 1)
After(s, c) == IF FindAny(s, {c}) = 0 THEN <<>> ELSE Drop(s, FindAny(s, {c}))

\* urlsplit's last steps: the fragment has been cut off; the query is what
\* follows the first "?".  The model's alphabet has no ";", so params is
\* always empty.
SplitQuery(sch, net, url, frag) ==
    [scheme |-> sch, netloc |-> net, path |-> Before(url, "?"), params |-> <<>>,
     query |-> After(url, "?"), fragment |-> frag]

SplitFragment(sch, net, url) == SplitQuery(sch, net, Before(url, "#"), After(url, "#"))

\* _splitnetloc(url, 2): the netloc runs up to the first "/", "?" or "#".
NetlocEnd(s) == IF FindAny(s, {"/", "?", "#"}) = 0 THEN Len(s) ELSE FindAny(s, {"/", "?", "#"}) - 1

SplitNetloc(sch, url) ==
    SplitFragment(sch,
                  IF StartsWith(url, <<"/","/">>)
                  THEN SubSeq(url, 3, 2 + NetlocEnd(Drop(url, 2))) ELSE <<>>,
                  IF StartsWith(url, <<"/","/">>)
                  THEN Drop(url, 2 + NetlocEnd(Drop(url, 2))) ELSE url)

SplitScheme(url) ==
    SplitNetloc(IF HasScheme(url) THEN Lower(Before(url, ":")) ELSE <<>>,
                IF HasScheme(url) THEN After(url, ":") ELSE url)

\* urlparse(url): tabs and newlines are dropped, then the scheme (lower-cased
\* by urlsplit), the netloc, the fragment and the query are split off.
urlparse(url) == SplitScheme(SelectSeq(url, LAMBDA c : c \notin {"\t", "\n"}))

\* Schemes urllib lists in uses_netloc, among those of the model.
UsesNetloc == { <<"h","t","t","p">>, <<"h","t","t","p","s">>, <<"f","t","p">> }

\* urlunsplit's steps, in its order.
WithNetloc(scheme, netloc, url) ==
    IF netloc # <<>>
         \/ (scheme # <<>> /\ scheme \in UsesNetloc /\ ~StartsWith(url, <<"/","/">>))
    THEN <<"/","/">> \o netloc \o (IF url # <<>> /\ url[1] # "/" THEN <<"/">> ELSE <<>>) \o url
    ELSE url
WithScheme(scheme, url) == IF scheme # <<>> THEN scheme \o <<":">> \o url ELSE url
WithQuery(url, query) == IF query # <<>> THEN url \o <<"?">> \o query ELSE url
WithFragment(url, fragment) == IF fragment # <<>> THEN url \o <<"#">> \o fragment ELSE url

\* urlunparse((scheme, netloc, path, params, query, fragment))
urlunparse(scheme, netloc, path, params, query, fragment) ==
    WithFragment(
        WithQuery(
            WithScheme(scheme,
                WithNetloc(scheme, netloc,
                           IF params # <<>> THEN path \o <<";">> \o params ELSE path)),
            query),
        fragment)

\* Percent-encoding of the characters quote_plus does not leave alone.
PctCode ==
    [c \in {"\t","\n","!","#","$","%","&","'","+",",","/",":","=","?"} |->
        CASE c = "\t" -> <<"0","9">> [] c = "\n" -> <<"0","A">>
          [] c = "!"  -> <<"2","1">> [] c = "#"  -> <<"2","3">>
          [] c = "$"  -> <<"2","4">> [] c = "%"  -> <<"2","5">>
          [] c = "&"  -> <<"2","6">> [] c = "'"  -> <<"2","7">>
          [] c = "+"  -> <<"2","B">> [] c = ","  -> <<"2","C">>
          [] c = "/"  -> <<"2","F">> [] c = ":"  -> <<"3","A">>
          [] c = "="  -> <<"3","D">> [] c = "?"  -> <<"3","F">>]

\* quote_plus(s): a space becomes "+", letters, digits and "_.-" stay, any
\* other character becomes "%XX".
RECURSIVE quote_plus(_)
quote_plus(s) ==
    IF s = <<>> THEN <<>>
    ELSE (IF s[1] = " " THEN <<"+">>
          ELSE IF s[1] \in DOMAIN PctCode THEN <<"%">> \o PctCode[s[1]]
          ELSE <<s[1]>>) \o quote_plus(Tail(s))

\* unquote(s): "%XX" (hex digits in either case) becomes the character it
\* encodes, for the codes of PctCode; any other "%" stays as it is.
Upper(s) == [i \in 1..Len(s) |->
               IF s[i] \in LowerCase THEN Alphabet[Ord[s[i]] - 27] ELSE s[i]]
RECURSIVE unquote(_)
unquote(s) ==
    IF s = <<>> THEN <<>>
    ELSE IF /\ s[1] = "%" /\ Len(s) >= 3
            /\ \E c \in DOMAIN PctCode : PctCode[c] = Upper(SubSeq(s, 2, 3))
         THEN <<CHOOSE c \in DOMAIN PctCode : PctCode[c] = Upper(SubSeq(s, 2, 3))>>
              \o unquote(Drop(s, 3))
         ELSE <<s[1]>> \o unquote(Tail(s))

unquote_plus(s) == unquote([i \in 1..Len(s) |-> IF s[i] = "+" THEN " " ELSE s[i]])

\* parse_qsl(query, keep_blank_values=True): the "&"-separated pieces that
\* are not empty, each split at its first "=" (a piece without "=" has the
\* empty value), both halves decoded.
parse_qsl(query) ==
    LET pieces == SelectSeq(SplitOn(query, "&"), LAMBDA p : p # <<>>)
        pair(p) == LET e == FindAny(p, {"="})
                   IN  IF e = 0 THEN <<unquote_plus(p), <<>>>>
                       ELSE <<unquote_plus(SubSeq(p, 1, e - 1)), unquote_plus(Drop(p, e))>>
    IN  [i \in 1..Len(pieces) |-> pair(pieces[i])]

\* urlencode(q) for a list of (key, value) pairs.
urlencode(q) ==
    Join([i \in 1..Len(q) |-> quote_plus(q[i][1]) \o <<"=">> \o quote_plus(q[i][2])],
         <<"&">>)

\* (k1, v1) < (k2, v2) as Python compares tuples.
PairLess(a, b) == StrLess(a[1], b[1]) \/ (a[1] = b[1] /\ StrLess(a[2], b[2]))

\* list.sort() on a list of pairs (insertion sort; stable).
RECURSIVE InsertPair(_, _)
InsertPair(x, s) ==
    IF s = <<>> THEN <<x>>
    ELSE IF PairLess(x, s[1]) THEN <<x>> \o s
    ELSE <<s[1]>> \o InsertPair(x, Tail(s))
RECURSIVE SortPairs(_)
SortPairs(q) ==
    IF q = <<>> THEN <<>>
    ELSE InsertPair(q[Len(q)], SortPairs(SubSeq(q, 1, Len(q) - 1)))

-----------------------------------------------------------------------------
(* Dedupe helpers *)

_TRACKING_PARAMS == {
    <<"u","t","m","_","s","o","u","r","c","e">>,
    <<"u","t","m","_","m","e","d","i","u","m">>,
    <<"u","t","m","_","c","a","m","p","a","i","g","n">>,
    <<"u","t","m","_","t","e","r","m">>,
    <<"u","t","m","_","c","o","n","t","e","n","t">>,
    <<"u","t","m","_","n","a","m","e">>,
    <<"u","t","m","_","i","d">>,
    <<"g","c","l","i","d">>,
    <<"f","b","c","l","i","d">>,
    <<"m","c","_","c","i","d">>,
    <<"m","c","_","e","i","d">>,
    <<"r","e","f">>,
    <<"r","e","f","_","s","r","c">>,
    <<"f","e","a","t","u","r","e">>,
    <<"s","p","m">>,
    <<"i","g","s","h","i","d">>,
    <<"i","t","o">>,
    <<"s">> }

\* path with a trailing "/amp/" or "/amp" removed (one removal, as the
\* if/elif does).
StripAmp(path) ==
    IF EndsWith(path, <<"/","a","m","p","/">>) THEN SubSeq(path, 1, Len(path) - 5)
    ELSE IF EndsWith(path, <<"/","a","m","p">>) THEN SubSeq(path, 1, Len(path) - 4)
    ELSE path

\* The URL rebuilt from the parsed parts p.
Normalized(p) ==
    urlunparse(Lower(IF p.scheme # <<>> THEN p.scheme ELSE <<"h","t","t","p","s">>),
               Lower(p.netloc),
               StripAmp(p.path),
               p.params,
               urlencode(SortPairs(SelectSeq(parse_qsl(p.query),
                                             LAMBDA kv : kv[1] \notin _TRACKING_PARAMS))),
               <<>>)

normalize_url(url) == Normalized(urlparse(url))

StopWords == {
    <<"t","h","e">>,
    <<"a","n","d">>,
    <<"f","o","r">>,
    <<"f","r","o","m">>,
    <<"w","i","t","h">>,
    <<"t","h","a","t">>,
    <<"t","h","i","s">>,
    <<"a","r","e">>,
    <<"w","a","s">>,
    <<"w","e","r","e">>,
    <<"h","a","s">>,
    <<"h","a","v","e">>,
    <<"i","n","t","o">>,
    <<"a","m","i","d">>,
    <<"o","v","e","r">>,
    <<"u","n","d","e","r">>,
    <<"a","f","t","e","r">>,
    <<"b","e","f","o","r","e">>,
    <<"a","m","o","n","g">>,
    <<"a","b","o","u","t">>,
    <<"i","t","s">>,
    <<"t","h","e","i","r">>,
    <<"y","o","u","r">>,
    <<"o","u","r">>,
    <<"s","a","y","s">>,
    <<"s","a","i","d">>,
    <<"n","e","w">>,
    <<"n","e","w","s">>,
    <<"c","r","y","p","t","o">>,
    <<"c","r","y","p","t","o","c","u","r","r","e","n","c","y">> }

FpChars == LowerCase \cup Digits \cup WhiteSpace \cup {"$", "%", "-"}

\* The fingerprint is cut to this many characters.
FP_CAP == 220

\* re.sub(r"[^a-z0-9\s$%\-]", " ", t) for a lower-cased t: every character
\* outside the class becomes a space.
FpFilter(t) == [i \in 1..Len(t) |-> IF t[i] \in FpChars THEN t[i] ELSE " "]

title_fingerprint(title) ==
    Take(Join(SortedStrs({w \in Range(SplitWS(FpFilter(Lower(title)))) :
                              Len(w) > 2 /\ w \notin StopWords}),
              <<" ">>),
         FP_CAP)

\* jacc >= 0.85, with the quotient of the two cardinalities kept exact.
titles_similar(fp1, fp2) ==
    LET s1 == Range(SplitWS(fp1))
        s2 == Range(SplitWS(fp2))
    IN  IF s1 = {} \/ s2 = {} THEN FALSE
        ELSE 100 * Cardinality(s1 \cap s2) >= 85 * Cardinality(s1 \cup s2)

-----------------------------------------------------------------------------
(* DedupeStore *)

\* self.TITLE_MAX, the size of the rolling window (400 in the source), scaled
\* down so that eviction happens within the model's runs.
TITLE_MAX == 2

\* xs[-n:] for n > 0
LastN(xs, n) == IF Len(xs) <= n THEN xs ELSE SubSeq(xs, Len(xs) - n + 1, Len(xs))

\* In-memory backend (self.redis is None).
has_url(urls, url) == normalize_url(url) \in urls

\* add_url that keeps only the key it was given.
add_url_Replace(urls, url) == {normalize_url(url)}

\* add_url that records nothing.
add_url_Forget(urls, url) == urls

add_url(urls, url) == urls \cup {normalize_url(url)}

\* has_title_like that looks for an exact match only.
has_title_like_ExactOnly(fps, fp) ==
    \E i \in 1..Len(LastN(fps, TITLE_MAX)) : LastN(fps, TITLE_MAX)[i] = fp

has_title_like(fps, fp) ==
    LET existing == LastN(fps, TITLE_MAX)
    IN  \E i \in 1..Len(existing) : existing[i] = fp \/ titles_similar(existing[i], fp)

\* add_title that keeps the oldest TITLE_MAX entries instead of the newest.
add_title_KeepOldest(fps, fp) ==
    LET appended == Append(fps, fp)
    IN  IF Len(appended) > TITLE_MAX THEN SubSeq(appended, 1, TITLE_MAX) ELSE appended

add_title(fps, fp) ==
    LET appended == Append(fps, fp)
    IN  IF Len(appended) > TITLE_MAX THEN LastN(appended, TITLE_MAX) ELSE appended

\* Redis backend: SISMEMBER / SADD on the set crypto_news_bot.urls.
redis_has_url(urls, url) == normalize_url(url) \in urls

redis_add_url(urls, url) == urls \cup {normalize_url(url)}

\* SADD on the set crypto_news_bot.title_fps; nothing is ever removed.
redis_add_title(titles, fp) == titles \cup {fp}

\* The answers has_title_like can give on the Redis backend.  An exact member
\* answers true.  Otherwise SMEMBERS hands back the members without an order:
\* a client that returns them as a Python set makes existing[-TITLE_MAX:]
\* raise TypeError; a client that returns a list gives them in an arbitrary
\* order, so the slice keeps an arbitrary TITLE_MAX of them.
redis_has_title_like(titles, fp) ==
    IF fp \in titles THEN {"true"}
    ELSE {"raise"} \cup
         { IF \E e \in kept : titles_similar(e, fp) THEN "true" ELSE "false" :
             kept \in { K \in SUBSET titles :
                          Cardinality(K) = IF Cardinality(titles) <= TITLE_MAX
                                           THEN Cardinality(titles) ELSE TITLE_MAX } }

Bool(b) == IF b THEN "true" ELSE "false"

-----------------------------------------------------------------------------
(* Extraction *)

\* Optional[str]: None, or a str (which may be empty).
None == [some |-> FALSE, v |-> <<>>]
Some(x) == [some |-> TRUE, v |-> x]

\* bool(x) for an Optional[str]
Truthy(o) == o.some /\ o.v # <<>>

\* a or b
Or(a, b) == IF Truthy(a) THEN a ELSE b

\* s.strip()
LStrip(s) ==
    Drop(s, Cardinality({i \in 1..Len(s) : \A j \in 1..i : s[j] \in WhiteSpace}))
RStrip(s) ==
    Take(s, Len(s) - Cardinality({i \in 1..Len(s) : \A j \in i..Len(s) : s[j] \in WhiteSpace}))
Strip(s) == LStrip(RStrip(s))

\* re.sub(r"\s+", " ", t): every run of whitespace becomes one space.
CollapseWS(t) ==
    LET keep == SelectSeq([i \in 1..Len(t) |-> i],
                          LAMBDA i : t[i] \notin WhiteSpace \/ i = 1 \/ t[i - 1] \notin WhiteSpace)
    IN  [k \in 1..Len(keep) |-> IF t[keep[k]] \in WhiteSpace THEN " " ELSE t[keep[k]]]

\* The least index at which pat occurs in t, letter case ignored; 0 if none.
FindNoCase(t, pat) ==
    LET hit(i) == Lower(SubSeq(t, i, i + Len(pat) - 1)) = Lower(pat)
        last   == Len(t) - Len(pat) + 1
    IN  IF \E i \in 1..last : hit(i)
        THEN CHOOSE i \in 1..last : hit(i) /\ \A j \in 1..(i - 1) : ~hit(j)
        ELSE 0

ReadMore == <<"R","e","a","d"," ","m","o","r","e">>

\* clean_text: collapse whitespace and strip, then cut from the first
\* "Read more" (any case) to the end.  No newline is left after the first
\* step, so ".*$" runs to the end of the string.
CutReadMore(t) ==
    IF FindNoCase(t, ReadMore) = 0 THEN t ELSE SubSeq(t, 1, FindNoCase(t, ReadMore) - 1)

clean_text(t) == CutReadMore(Strip(CollapseWS(t)))

\* A tag a selector finds in the page: absent, or present with the value of
\* the attribute the code reads from it (empty when the attribute is missing
\* or empty).
NoTag == [present |-> FALSE, v |-> <<>>]
Tag(x) == [present |-> TRUE, v |-> x]

HttpPrefix == <<"h","t","t","p">>

\* extract_canonical(html).  bs is whether BeautifulSoup was imported;
\* page.soup_ok is whether BeautifulSoup(html, "lxml") returns (it raises
\* when the parser is missing).
extract_canonical(bs, page) ==
    IF ~bs THEN None
    ELSE IF ~page.soup_ok THEN None
    ELSE IF page.link_canonical.present /\ page.link_canonical.v # <<>>
            /\ StartsWith(page.link_canonical.v, HttpPrefix)
         THEN Some(normalize_url(page.link_canonical.v))
    ELSE IF page.og_url.present /\ page.og_url.v # <<>>
            /\ StartsWith(page.og_url.v, HttpPrefix)
         THEN Some(normalize_url(page.og_url.v))
    ELSE None

\* What a library call does on the page: it raises, returns None, or returns
\* a str.
Raises == [kind |-> "raise", v |-> <<>>]
RetNone == [kind |-> "none", v |-> <<>>]
Ret(x) == [kind |-> "text", v |-> x]
NoPage == [kind |-> "nopage", v |-> <<>>]

\* extract_with_trafilatura(url, html).  traf is whether trafilatura was
\* imported; page.traf is what trafilatura does: "nopage" when html is empty
\* and fetch_url gets nothing, else what trafilatura.extract does.
extract_with_trafilatura(traf, page) ==
    IF ~traf THEN None
    ELSE IF page.traf.kind \in {"raise", "nopage"} THEN None
    ELSE IF page.traf.kind = "none" THEN Some(clean_text(<<>>))
    ELSE Some(clean_text(page.traf.v))

\* extract_with_readability(html).  page.read is what Document(html).summary()
\* and the join of its p and li texts give.
extract_with_readability(bs, page) ==
    IF ~bs THEN None
    ELSE IF page.read.kind = "raise" \/ ~page.soup_ok THEN None
    ELSE Some(clean_text(page.read.v))

\* meta_description with og:description and twitter:description consulted
\* before the description meta field.
meta_description_OgFirst(bs, page) ==
    IF ~bs THEN None
    ELSE IF ~page.soup_ok THEN None
    ELSE IF page.og_description.present /\ page.og_description.v # <<>>
         THEN Some(clean_text(page.og_description.v))
    ELSE IF page.twitter_description.present /\ page.twitter_description.v # <<>>
         THEN Some(clean_text(page.twitter_description.v))
    ELSE IF page.meta_description.present /\ page.meta_description.v # <<>>
         THEN Some(clean_text(page.meta_description.v))
    ELSE IF page.first_p.present /\ page.first_p.v # <<>>
         THEN Some(clean_text(page.first_p.v))
    ELSE None

\* meta_description(html): the selectors in the order of the list, then the
\* first p element.
meta_description(bs, page) ==
    IF ~bs THEN None
    ELSE IF ~page.soup_ok THEN None
    ELSE IF page.meta_description.present /\ page.meta_description.v # <<>>
         THEN Some(clean_text(page.meta_description.v))
    ELSE IF page.og_description.present /\ page.og_description.v # <<>>
         THEN Some(clean_text(page.og_description.v))
    ELSE IF page.twitter_description.present /\ page.twitter_description.v # <<>>
         THEN Some(clean_text(page.twitter_description.v))
    ELSE IF page.first_p.present /\ page.first_p.v # <<>>
         THEN Some(clean_text(page.first_p.v))
    ELSE None

\* The chain with the metadata description tried before readability.
ExtractText_MetaBeforeReadability(traf, bs, page) ==
    Or(Or(extract_with_trafilatura(traf, page), meta_description(bs, page)),
       extract_with_readability(bs, page))

\* text = extract_with_trafilatura(...) or extract_with_readability(...)
\*        or meta_description(...)
ExtractText(traf, bs, page) ==
    Or(Or(extract_with_trafilatura(traf, page), extract_with_readability(bs, page)),
       meta_description(bs, page))

-----------------------------------------------------------------------------
(* Summary *)

Abbreviations == { <<"M","r">>, <<"M","s">>, <<"D","r">>, <<"P","r","o","f">>, <<"J","r">>, <<"S","r">>, <<"S","t">> }

\* t[k] is a "." that split_sentences protects: one that directly follows an
\* abbreviation (the code rewrites it to "<dot>" before splitting and back
\* afterwards).
ProtectedDot(t, k) ==
    t[k] = "." /\ \E a \in Abbreviations : EndsWith(SubSeq(t, 1, k - 1), a)

\* The lookahead of the sentence splitter: an upper-case letter, a digit, an
\* opening bracket or a quote.
SentenceStart == UpperCase \cup Digits \cup {"(", "\"", "'"}

\* t[j] starts the whitespace of a sentence boundary: it follows ".", "!" or
\* "?" (not a protected dot) and the whitespace is followed by a sentence start.
Boundary(t, j) ==
    /\ j > 1 /\ t[j] \in WhiteSpace
    /\ t[j - 1] \in {".", "!", "?"} /\ ~ProtectedDot(t, j - 1)
    /\ LET rest == LStrip(SubSeq(t, j, Len(t)))
       IN  rest # <<>> /\ rest[1] \in SentenceStart

\* re.split at the boundaries.
RECURSIVE SplitAtBoundaries(_)
SplitAtBoundaries(t) ==
    IF \E j \in 1..Len(t) : Boundary(t, j)
    THEN LET j == CHOOSE j \in 1..Len(t) :
                      Boundary(t, j) /\ \A k \in 1..(j - 1) : ~Boundary(t, k)
         IN  <<SubSeq(t, 1, j - 1)>> \o SplitAtBoundaries(LStrip(SubSeq(t, j, Len(t))))
    ELSE <<t>>

\* [p.strip() for p in parts if p.strip()]
StripParts(parts) ==
    SelectSeq([i \in 1..Len(parts) |-> Strip(parts[i])], LAMBDA x : x # <<>>)

split_sentences(text) == StripParts(SplitAtBoundaries(clean_text(text)))

TokenChars == UpperCase \cup LowerCase \cup Digits \cup {"$", "%", "-", "."}

\* re.findall(r"[A-Za-z0-9$%\-\.]+", s): the maximal runs of token characters.
RECURSIVE FindTokens(_)
FindTokens(s) ==
    IF s = <<>> THEN <<>>
    ELSE IF s[1] \notin TokenChars
         THEN FindTokens(Drop(s, Cardinality({i \in 1..Len(s) :
                                                \A j \in 1..i : s[j] \notin TokenChars})))
    ELSE LET n == Cardinality({i \in 1..Len(s) : \A j \in 1..i : s[j] \in TokenChars})
         IN  <<SubSeq(s, 1, n)>> \o FindTokens(Drop(s, n))

SummaryStop == {
    <<"t","h","e">>,
    <<"a">>,
    <<"a","n">>,
    <<"a","n","d">>,
    <<"o","r">>,
    <<"o","f">>,
    <<"t","o">>,
    <<"f","o","r">>,
    <<"f","r","o","m">>,
    <<"i","n">>,
    <<"o","n">>,
    <<"a","t">>,
    <<"a","s">>,
    <<"w","i","t","h">>,
    <<"b","y">>,
    <<"i","s">>,
    <<"a","r","e">>,
    <<"w","a","s">>,
    <<"w","e","r","e">>,
    <<"b","e">>,
    <<"h","a","s">>,
    <<"h","a","v","e">>,
    <<"h","a","d">>,
    <<"i","t">>,
    <<"t","h","a","t">>,
    <<"t","h","i","s">>,
    <<"t","h","o","s","e">>,
    <<"t","h","e","s","e">>,
    <<"y","o","u">>,
    <<"y","o","u","r">>,
    <<"t","h","e","i","r">>,
    <<"o","u","r">>,
    <<"i","t","s">>,
    <<"t","h","e","y">>,
    <<"h","e">>,
    <<"s","h","e">>,
    <<"t","h","e","m">>,
    <<"w","e">>,
    <<"n","o","t">>,
    <<"w","i","l","l">>,
    <<"w","o","u","l","d">>,
    <<"c","a","n">>,
    <<"c","o","u","l","d">>,
    <<"s","h","o","u","l","d">>,
    <<"m","a","y">>,
    <<"m","i","g","h","t">>,
    <<"a","b","o","u","t">>,
    <<"i","n","t","o">>,
    <<"o","v","e","r">>,
    <<"u","n","d","e","r">>,
    <<"a","f","t","e","r">>,
    <<"b","e","f","o","r","e">>,
    <<"a","m","i","d">>,
    <<"a","m","o","n","g">>,
    <<"t","h","a","n">>,
    <<"v","i","a">>,
    <<"s","a","y","s">>,
    <<"s","a","i","d">> }

\* freqs.get(w, 0), freqs built from the words of the whole text.
Freq(words, w) ==
    IF Len(w) < 3 \/ w \in SummaryStop THEN 0
    ELSE Cardinality({k \in 1..Len(words) : words[k] = w})

RECURSIVE SumFreq(_, _)
SumFreq(words, tokens) ==
    IF tokens = <<>> THEN 0
    ELSE Freq(words, tokens[1]) + SumFreq(words, Tail(tokens))

\* score(s, i) as the fraction num/den of 2000 times its value, i counted
\* from 0: dens * 0.7 + lead_bonus * 0.25 + len_penalty * 0.05, for the
\* tokens of the lower-cased sentence and its length len.
ScoreOf(words, tokens, len, i) ==
    IF tokens = <<>> THEN [num |-> 0, den |-> 1]
    ELSE [num |-> 1400 * SumFreq(words, tokens) * (1 + i) + 500 * Len(tokens)
                    + (IF len < 240 THEN 100 ELSE 85) * Len(tokens) * (1 + i),
          den |-> Len(tokens) * (1 + i)]

Score(words, sentence, i) == ScoreOf(words, FindTokens(Lower(sentence)), Len(sentence), i)

ScoreLess(a, b) == a.num * b.den < b.num * a.den

\* The one-character ellipsis the code appends.
Ellipsis == <<"~">>

\* s.rsplit(" ", 1)[0]
BeforeLastSpace(s) ==
    IF \E i \in 1..Len(s) : s[i] = " "
    THEN SubSeq(s, 1, (CHOOSE i \in 1..Len(s) :
                          s[i] = " " /\ \A j \in (i + 1)..Len(s) : s[j] # " ") - 1)
    ELSE s

\* The place (from 0) of sentence i in sorted(..., key=score, reverse=True),
\* a stable sort: the sentences that score higher, and the earlier ones that
\* score the same.
Rank(scores, i) ==
    Cardinality({j \in 1..Len(scores) :
                    \/ ScoreLess(scores[i], scores[j])
                    \/ (~ScoreLess(scores[j], scores[i]) /\ j < i)})

\* The top max_sentences sentences, back in their original order, joined.
TopJoined(sents, scores, max_sentences) ==
    Join(SelectSeq([i \in 1..Len(sents) |-> IF Rank(scores, i) < max_sentences
                                            THEN sents[i] ELSE <<>>],
                   LAMBDA x : x # <<>>),
         <<" ">>)

\* The joined sentences are returned as they are, however long.
Clip_Uncut(out, max_chars) == out

\* out.rsplit(" ", 1)[0] + ellipsis when out is longer than max_chars
Clip(out, max_chars) ==
    IF Len(out) > max_chars
    THEN BeforeLastSpace(Take(out, max_chars - 1)) \o Ellipsis
    ELSE out

Summary(sents, words, max_sentences, max_chars) ==
    IF sents = <<>> THEN <<>>
    ELSE IF Len(Join(sents, <<" ">>)) <= max_chars /\ Len(sents) <= max_sentences
         THEN Join(sents, <<" ">>)
    ELSE Clip(TopJoined(sents,
                        [i \in 1..Len(sents) |-> Score(words, sents[i], i - 1)],
                        max_sentences),
              max_chars)

summarize(text, max_sentences, max_chars) ==
    Summary(split_sentences(text), FindTokens(Lower(text)), max_sentences, max_chars)

\* re.sub(r"[^A-Za-z0-9 ]+", "", s.lower())
PlainLower(s) == SelectSeq(Lower(s), LAMBDA c : c \in LowerCase \cup Digits \cup {" "})

\* x in s
Contains(s, x) == \E i \in 1..(Len(s) - Len(x) + 1) : SubSeq(s, i, i + Len(x) - 1) = x

\* re.sub(re.escape(title) + r"[:\-]?\s*", "", synopsis, flags=re.IGNORECASE):
\* every occurrence of the title (any case), with one ":" or "-" and the
\* whitespace that follow it, is removed.
RECURSIVE RemoveTitle(_, _)
RemoveTitle(syn, title) ==
    LET i == FindNoCase(syn, title)
    IN  IF i = 0 THEN syn
        ELSE LET r1 == Drop(syn, i + Len(title) - 1)
                 r2 == IF r1 # <<>> /\ r1[1] \in {":", "-"} THEN Tail(r1) ELSE r1
             IN  SubSeq(syn, 1, i - 1) \o RemoveTitle(LStrip(r2), title)

dedupe_headline(title, syn) ==
    LET t == PlainLower(title)
        s == PlainLower(syn)
    IN  IF syn = <<>> THEN <<>>
        ELSE IF t # <<>> /\ Contains(s, t) THEN Strip(RemoveTitle(syn, title))
        ELSE syn

Copyright == <<"C","o","p","y","r","i","g","h","t">>

\* re.sub(r"(Copyright).*?\d{4}.*", "", text, flags=re.IGNORECASE): the text
\* is cut at the first "copyright" that has four digits in a row after it.
StripCopyright(text) ==
    LET i == FindNoCase(text, Copyright)
    IN  IF i > 0 /\ \E k \in (i + Len(Copyright))..(Len(text) - 3) :
                        \A d \in 0..3 : text[k + d] \in Digits
        THEN SubSeq(text, 1, i - 1)
        ELSE text

\* build_synopsis_and_canonical: got is whether fetch_text returned the page
\* (it raises after its last attempt otherwise).
\* The synopsis falls back to the title when the page or its text is missing.
Built_TitleFallback(got, canon, text, title) ==
    IF ~got THEN [synopsis |-> title, canonical |-> None]
    ELSE IF ~Truthy(text) THEN [synopsis |-> title, canonical |-> canon]
    ELSE [synopsis |-> dedupe_headline(title, summarize(StripCopyright(text.v), 3, 420)),
          canonical |-> canon]

Built(got, canon, text, title) ==
    IF ~got THEN [synopsis |-> <<>>, canonical |-> None]
    ELSE IF ~Truthy(text) THEN [synopsis |-> <<>>, canonical |-> canon]
    ELSE [synopsis |-> dedupe_headline(title, summarize(StripCopyright(text.v), 3, 420)),
          canonical |-> canon]

build_synopsis_and_canonical(got, traf, bs, page, title) ==
    Built(got, extract_canonical(bs, page), ExtractText(traf, bs, page), title)

-----------------------------------------------------------------------------
(* Headlines and links the bounded runs draw from *)

\* "Bitcoin Hits New High"
TitleA == <<"B","i","t","c","o","i","n"," ","H","i","t","s"," ","N","e","w"," ","H","i","g","h">>
\* "Bitcoin hits new all-time high"
TitleB == <<"B","i","t","c","o","i","n"," ","h","i","t","s"," ","n","e","w"," ","a","l","l","-","t","i","m","e"," ","h","i","g","h">>
\* "High: Bitcoin hits!"
TitleC == <<"H","i","g","h",":"," ","B","i","t","c","o","i","n"," ","h","i","t","s","!">>
\* "SEC sues Binance over token sales today"
TitleD == <<"S","E","C"," ","s","u","e","s"," ","B","i","n","a","n","c","e"," ","o","v","e","r"," ","t","o","k","e","n"," ","s","a","l","e","s"," ","t","o","d","a","y">>
\* "SEC sues Binance over token sales today again"
TitleE == <<"S","E","C"," ","s","u","e","s"," ","B","i","n","a","n","c","e"," ","o","v","e","r"," ","t","o","k","e","n"," ","s","a","l","e","s"," ","t","o","d","a","y"," ","a","g","a","i","n">>
\* "ETH ETF approved"
TitleF == <<"E","T","H"," ","E","T","F"," ","a","p","p","r","o","v","e","d">>
\* "The New"
TitleG == <<"T","h","e"," ","N","e","w">>

\* "https://ex.com/a"
UrlA == <<"h","t","t","p","s",":","/","/","e","x",".","c","o","m","/","a">>
\* "https://EX.com/a?utm_source=x"
UrlA2 == <<"h","t","t","p","s",":","/","/","E","X",".","c","o","m","/","a","?","u","t","m","_","s","o","u","r","c","e","=","x">>
\* "https://ex.com/c"
UrlC == <<"h","t","t","p","s",":","/","/","e","x",".","c","o","m","/","c">>

\* Texts the pages carry.
TxtTraf == <<"T","r","a","f"," ","b","o","d","y",".">>
TxtRead == <<"R","e","a","d"," ","b","o","d","y",".">>
TxtDesc == <<"D","e","s","c">>
TxtOg   == <<"O","g">>
TxtTw   == <<"T","w">>
TxtP    == <<"P","a","r","a">>
\* cleans to the empty string
TxtJunk == <<" "," ","R","e","a","d"," ","m","o","r","e"," ","h","e","r","e">>

FpA == title_fingerprint(TitleA)
FpB == title_fingerprint(TitleB)
FpD == title_fingerprint(TitleD)
FpE == title_fingerprint(TitleE)
FpG == title_fingerprint(TitleG)

-----------------------------------------------------------------------------
(* Posting *)

SynopsisLabel == <<"*","*","S","y","n","o","p","s","i","s",":","*","*"," ">>
Unavailable   == <<"_","S","y","n","o","p","s","i","s"," ","u","n","a","v","a","i","l","a","b","l","e","_">>

\* The embed post_embed builds and hands to channel.send.
Embed(it, syn) ==
    [ title |-> it.title, url |-> it.link,
      description |-> IF syn # <<>> THEN SynopsisLabel \o syn ELSE Unavailable ]

NoEmbed == [title |-> <<>>, url |-> <<>>, description |-> <<>>]

-----------------------------------------------------------------------------
(* The feeds and the pages behind the links, for the bounded runs *)

\* "https://ex.com/d", "https://ex.com/e/amp", "https://news.io/b", "https://ex.com/g"
UrlD == <<"h","t","t","p","s",":","/","/","e","x",".","c","o","m","/","d">>
UrlE == <<"h","t","t","p","s",":","/","/","e","x",".","c","o","m","/","e","/","a","m","p">>
UrlB == <<"h","t","t","p","s",":","/","/","n","e","w","s",".","i","o","/","b">>
UrlG == <<"h","t","t","p","s",":","/","/","e","x",".","c","o","m","/","g">>
\* "https://ex.com/d?ref=x", "https://ex.com/e"
CanonD == <<"h","t","t","p","s",":","/","/","e","x",".","c","o","m","/","d","?","r","e","f","=","x">>
CanonE == <<"h","t","t","p","s",":","/","/","e","x",".","c","o","m","/","e">>

\* "Bitcoin Hits New High: the price rose. More soon."
BodyA == <<"B","i","t","c","o","i","n"," ","H","i","t","s"," ","N","e","w"," ","H","i","g","h",":"," ","t","h","e"," ","p","r","i","c","e"," ","r","o","s","e","."," ","M","o","r","e"," ","s","o","o","n",".">>

Entry(t, l, hasdt, d) == [title |-> t, link |-> l, dated |-> hasdt, dt |-> d]

\* Two feeds; dt in hours.  The second entry of Feed1 and the last of Feed2
\* have no date; the first entries of the two feeds have the same date.
Feed1 == [ title |-> <<"O","n","e">>,
           entries |-> << Entry(TitleA, UrlA, TRUE, 20),
                          Entry(TitleG, UrlG, FALSE, 0),
                          Entry(TitleD, UrlD, TRUE, 18) >> ]
Feed2 == [ title |-> <<"T","w","o">>,
           entries |-> << Entry(TitleF, UrlA2, TRUE, 20),
                          Entry(TitleE, UrlE, TRUE, 21),
                          Entry(TitleB, UrlB, TRUE, 17),
                          Entry(TitleC, UrlC, FALSE, 0) >> ]
RSS_FEEDS == <<Feed1, Feed2>>

\* The clock readings a cycle may start at, in hours.
Nows == {22, 30}

BasePage ==
    [ soup_ok |-> TRUE, link_canonical |-> NoTag, og_url |-> NoTag,
      traf |-> RetNone, read |-> Ret(<<>>), meta_description |-> NoTag,
      og_description |-> NoTag, twitter_description |-> NoTag, first_p |-> NoTag ]

\* The page behind each link.  UrlD's page yields no text from any strategy;
\* UrlB's page names UrlD's article as its canonical URL; the body of UrlE's
\* page is its own headline.
PageAt(link) ==
    CASE link = UrlA  -> [BasePage EXCEPT !.traf = Ret(BodyA)]
      [] link = UrlA2 -> [BasePage EXCEPT !.traf = Ret(BodyA)]
      [] link = UrlD  -> [BasePage EXCEPT !.traf = Raises, !.link_canonical = Tag(CanonD)]
      [] link = UrlE  -> [BasePage EXCEPT !.traf = Ret(TitleE), !.og_url = Tag(CanonE)]
      [] link = UrlB  -> [BasePage EXCEPT !.read = Ret(TxtRead), !.link_canonical = Tag(UrlD)]
      [] link = UrlG  -> [BasePage EXCEPT !.read = Raises, !.og_description = Tag(TxtOg)]
      [] OTHER        -> [BasePage EXCEPT !.first_p = Tag(TxtP)]

-----------------------------------------------------------------------------
(* RSS fetch *)

\* fetch_rss: the first 40 entries that have a link and a title, as items.
fetch_rss(feed) ==
    LET kept == SelectSeq(Take(feed.entries, 40),
                          LAMBDA e : e.link # <<>> /\ Strip(e.title) # <<>>)
    IN  [i \in 1..Len(kept) |->
            [ title     |-> Strip(kept[i].title),
              link      |-> kept[i].link,
              norm_link |-> normalize_url(kept[i].link),
              source    |-> feed.title,
              dated     |-> kept[i].dated,
              dt        |-> kept[i].dt,
              title_fp  |-> title_fingerprint(Strip(kept[i].title)) ]]

-----------------------------------------------------------------------------
(* Main loop *)

POSTS_PER_INTERVAL == 3
MAX_AGE_HOURS == 12

\* At most MaxCycles polling cycles in a run.
MaxCycles == 2

\* The first failed fetch ends the gathering.
RECURSIVE Gathered_AbortOnFailure(_, _)
Gathered_AbortOnFailure(f, ok) ==
    IF f > Len(RSS_FEEDS) \/ f \notin ok THEN <<>>
    ELSE fetch_rss(RSS_FEEDS[f]) \o Gathered_AbortOnFailure(f + 1, ok)

\* The items of the feeds whose fetch succeeded, in feed order.
RECURSIVE Gathered(_, _)
Gathered(f, ok) ==
    IF f > Len(RSS_FEEDS) THEN <<>>
    ELSE (IF f \in ok THEN fetch_rss(RSS_FEEDS[f]) ELSE <<>>) \o Gathered(f + 1, ok)

\* Recency filter.
Fresh(items, now) ==
    SelectSeq(items, LAMBDA it :
        /\ ~(~it.dated /\ ~ALLOW_UNDATED)
        /\ ~(it.dated /\ it.dt < now - MAX_AGE_HOURS))

\* An item goes before the equal ones already placed.
NewerOrEqual_Strict(a, b) == a.dated /\ (b.dated => a.dt > b.dt)

\* x.get("dt") or datetime.min: an undated item sorts below every dated one.
NewerOrEqual(a, b) == IF ~b.dated THEN TRUE ELSE a.dated /\ a.dt >= b.dt

\* fresh.sort(key=..., reverse=True): newest first, stable.
RECURSIVE InsertNewestFirst(_, _)
InsertNewestFirst(x, sorted) ==
    IF sorted = <<>> THEN <<x>>
    ELSE IF NewerOrEqual(sorted[1], x) THEN <<sorted[1]>> \o InsertNewestFirst(x, Tail(sorted))
    ELSE <<x>> \o sorted
RECURSIVE SortNewestFirst(_)
SortNewestFirst(items) ==
    IF items = <<>> THEN <<>>
    ELSE InsertNewestFirst(items[Len(items)],
                           SortNewestFirst(SubSeq(items, 1, Len(items) - 1)))

Keys == {normalize_url(RSS_FEEDS[f].entries[i].link) :
            f \in 1..Len(RSS_FEEDS), i \in 1..3} \cup
        {normalize_url(RSS_FEEDS[2].entries[4].link)}

item == fresh[idx]

InLoop == pc = "loop" /\ idx <= Len(fresh) /\ posted < POSTS_PER_INTERVAL

LoopInit ==
    /\ pc = "sleep"
    /\ ALLOW_UNDATED \in BOOLEAN
    /\ trafilatura \in BOOLEAN
    /\ BeautifulSoup \in BOOLEAN
    /\ cycles = 0
    /\ answered = {}
    /\ fresh = <<>>
    /\ idx = 1
    /\ posted = 0
    /\ fetched = FALSE
    /\ synopsis = <<>>
    /\ canonical = None
    /\ sent = NoEmbed
    /\ invoked = [k \in Keys |-> 0]
    /\ returned = [k \in Keys |-> 0]

LoopIdle ==
    /\ pc = "idle"
    /\ ALLOW_UNDATED = FALSE
    /\ trafilatura = FALSE
    /\ BeautifulSoup = FALSE
    /\ cycles = 0
    /\ answered = {}
    /\ fresh = <<>>
    /\ idx = 1
    /\ posted = 0
    /\ fetched = FALSE
    /\ synopsis = <<>>
    /\ canonical = None
    /\ sent = NoEmbed
    /\ invoked = [k \in Keys |-> 0]
    /\ returned = [k \in Keys |-> 0]

others == <<nvars, rvars, evars, hvars>>
config == <<ALLOW_UNDATED, trafilatura, BeautifulSoup>>

\* A cycle starts: the feeds are fetched (a feed whose fetch fails is left
\* out), the items filtered by age and sorted newest first.
Gather ==
    /\ pc = "sleep"
    /\ cycles < MaxCycles
    /\ \E ok \in SUBSET (1..Len(RSS_FEEDS)), now \in Nows :
          /\ answered' = ok
          /\ fresh' = SortNewestFirst(Fresh(Gathered(1, ok), now))
    /\ idx' = 1
    /\ posted' = 0
    /\ cycles' = cycles + 1
    /\ pc' = "loop"
    /\ UNCHANGED <<store, fetched, synopsis, canonical, sent, invoked, returned, config, others>>

\* quick URL dedupe: continue
SkipSeenUrl ==
    /\ InLoop
    /\ has_url(url_set, item.norm_link)
    /\ idx' = idx + 1
    /\ UNCHANGED <<pc, cycles, fresh, posted, store, fetched, synopsis, canonical, sent,
                   invoked, returned, config, answered, others>>

\* quick title dedupe: continue
SkipSeenTitle ==
    /\ InLoop
    /\ ~has_url(url_set, item.norm_link)
    /\ has_title_like(title_fps, item.title_fp)
    /\ idx' = idx + 1
    /\ UNCHANGED <<pc, cycles, fresh, posted, store, fetched, synopsis, canonical, sent,
                   invoked, returned, config, answered, others>>

\* The candidate is new by link and title: its page is fetched (or the fetch
\* fails) and the synopsis and the canonical URL are built.
BuildSynopsis ==
    /\ InLoop
    /\ ~has_url(url_set, item.norm_link)
    /\ ~has_title_like(title_fps, item.title_fp)
    /\ \E f \in BOOLEAN :
          \E r \in {build_synopsis_and_canonical(f, trafilatura, BeautifulSoup,
                                                 PageAt(item.link), item.title)} :
              /\ fetched' = f
              /\ synopsis' = r.synopsis
              /\ canonical' = r.canonical
    /\ pc' = "built"
    /\ UNCHANGED <<cycles, fresh, idx, posted, store, sent, invoked, returned, config, answered, others>>

\* The canonical URL is not looked up.
CanonicalSeen_Never == FALSE

CanonicalSeen == Truthy(canonical) /\ has_url(url_set, canonical.v)

\* canonical/url dedupe before posting: continue
SkipSeenCanonical ==
    /\ pc = "built"
    /\ CanonicalSeen
    /\ idx' = idx + 1
    /\ pc' = "loop"
    /\ UNCHANGED <<cycles, fresh, posted, store, fetched, synopsis, canonical, sent,
                   invoked, returned, config, answered, others>>

\* post_embed is called and returns.
PostEmbedReturns ==
    /\ pc = "built"
    /\ ~CanonicalSeen
    /\ sent' = Embed(item, synopsis)
    /\ invoked' = [invoked EXCEPT ![item.norm_link] = @ + 1]
    /\ returned' = [returned EXCEPT ![item.norm_link] = @ + 1]
    /\ pc' = "posted"
    /\ UNCHANGED <<cycles, fresh, idx, posted, store, fetched, synopsis, canonical,
                   config, answered, others>>

\* The keys are recorded before channel.send raises.
PostEmbedRaises_AfterRecording ==
    /\ pc = "built"
    /\ ~CanonicalSeen
    /\ sent' = Embed(item, synopsis)
    /\ invoked' = [invoked EXCEPT ![item.norm_link] = @ + 1]
    /\ url_set' = add_url(url_set, item.norm_link)
    /\ title_fps' = add_title(title_fps, item.title_fp)
    /\ pc' = "sleep"
    /\ UNCHANGED <<cycles, fresh, idx, posted, fetched, synopsis, canonical,
                   returned, config, answered, others>>

\* post_embed is called and channel.send raises: the exception leaves the
\* for loop, is logged by the handler of the cycle, and the loop sleeps.
PostEmbedRaises ==
    /\ pc = "built"
    /\ ~CanonicalSeen
    /\ sent' = Embed(item, synopsis)
    /\ invoked' = [invoked EXCEPT ![item.norm_link] = @ + 1]
    /\ pc' = "sleep"
    /\ UNCHANGED <<cycles, fresh, idx, posted, store, fetched, synopsis, canonical,
                   returned, config, answered, others>>

\* record dedupe keys
RecordKeys ==
    /\ pc = "posted"
    /\ url_set' = LET u1 == add_url(url_set, item.norm_link)
                  IN  IF Truthy(canonical) THEN add_url(u1, canonical.v) ELSE u1
    /\ title_fps' = add_title(title_fps, item.title_fp)
    /\ posted' = posted + 1
    /\ idx' = idx + 1
    /\ pc' = "loop"
    /\ UNCHANGED <<cycles, fresh, fetched, synopsis, canonical, sent, invoked, returned,
                   config, answered, others>>

\* The for loop ends (no candidate left, or POSTS_PER_INTERVAL posts made)
\* and the loop sleeps.
EndCycle ==
    /\ pc = "loop"
    /\ ~(idx <= Len(fresh) /\ posted < POSTS_PER_INTERVAL)
    /\ pc' = "sleep"
    /\ UNCHANGED <<cycles, fresh, idx, posted, store, fetched, synopsis, canonical, sent,
                   invoked, returned, config, answered, others>>

Next ==
    \/ Gather
    \/ SkipSeenUrl
    \/ SkipSeenTitle
    \/ BuildSynopsis
    \/ SkipSeenCanonical
    \/ PostEmbedReturns
    \/ PostEmbedRaises
    \/ RecordKeys
    \/ EndCycle

-----------------------------------------------------------------------------
(* The DedupeStore under bounded sequences of calls.  Each call is made on an
   in-memory store and on a Redis-backed store, which start empty. *)

StoreUrls == {UrlA, UrlA2, UrlC}
StoreFps  == {FpA, FpB, FpD, FpE, FpG}

\* At most MaxAdds calls of add_title in a run.
MaxAdds == 3

StoreInit ==
    /\ url_set = {}
    /\ title_fps = <<>>
    /\ redis_urls = {}
    /\ redis_titles = {}
    /\ s_op = [op |-> "none", mem |-> "none", redis |-> "none"]
    /\ s_arg = <<>>
    /\ s_added = <<>>

StoreAddUrl ==
    \E u \in StoreUrls :
        /\ url_set' = add_url(url_set, u)
        /\ redis_urls' = redis_add_url(redis_urls, u)
        /\ s_op' = [op |-> "add_url", mem |-> "none", redis |-> "none"]
        /\ s_arg' = u
        /\ UNCHANGED <<title_fps, redis_titles, s_added, nvars, evars, lvars, hvars>>

StoreHasUrl ==
    \E u \in StoreUrls :
        /\ s_op' = [op |-> "has_url", mem |-> Bool(has_url(url_set, u)),
                    redis |-> Bool(redis_has_url(redis_urls, u))]
        /\ s_arg' = u
        /\ UNCHANGED <<url_set, title_fps, redis_urls, redis_titles, s_added, nvars, evars, lvars, hvars>>

StoreAddTitle ==
    \E fp \in StoreFps :
        /\ Len(s_added) < MaxAdds
        /\ title_fps' = add_title(title_fps, fp)
        /\ redis_titles' = redis_add_title(redis_titles, fp)
        /\ s_op' = [op |-> "add_title", mem |-> "none", redis |-> "none"]
        /\ s_arg' = fp
        /\ s_added' = Append(s_added, fp)
        /\ UNCHANGED <<url_set, redis_urls, nvars, evars, lvars, hvars>>

StoreHasTitleLike ==
    \E fp \in StoreFps :
        \E r \in redis_has_title_like(redis_titles, fp) :
            /\ s_op' = [op |-> "has_title_like",
                        mem |-> Bool(has_title_like(title_fps, fp)), redis |-> r]
            /\ s_arg' = fp
            /\ UNCHANGED <<url_set, title_fps, redis_urls, redis_titles, s_added, nvars, evars, lvars, hvars>>

StoreNext == StoreAddUrl \/ StoreHasUrl \/ StoreAddTitle \/ StoreHasTitleLike

-----------------------------------------------------------------------------
(* normalize_url on bounded inputs *)

NormSchemes == { <<"h","t","t","p","s",":">>, <<"H","T","T","P",":">>, <<>> }
NormHosts   == { <<"/","/","E","X",".","c","o","m">>, <<"/","/","e","x",".","c","o","m">> }
NormSegs    == { <<"/","a">>, <<"/","a","m","p">> }
NormSlash   == { <<>>, <<"/">> }
NormParams  == { <<"u","t","m","_","s","o","u","r","c","e","=","x">>,
                 <<"b","=","2">>, <<"a","=","1">>, <<"r","e","f","=","y">> }
NormFrags   == { <<>>, <<"#","t","o","p">> }

\* Paths of at most MaxSegs segments, queries of at most MaxParams parameters.
MaxSegs == 2
MaxParams == 2

RECURSIVE ConcatAll(_)
ConcatAll(ss) == IF ss = <<>> THEN <<>> ELSE ss[1] \o ConcatAll(Tail(ss))

SeqsUpTo(S, n) == UNION {[1..k -> S] : k \in 0..n}

NormPaths   == {ConcatAll(segs) \o sl : segs \in SeqsUpTo(NormSegs, MaxSegs), sl \in NormSlash}
NormQueries == {IF ps = <<>> THEN <<>> ELSE <<"?">> \o Join(ps, <<"&">>) :
                   ps \in SeqsUpTo(NormParams, MaxParams)}
NormInputs  == {s \o h \o p \o q \o f :
                   s \in NormSchemes, h \in NormHosts, p \in NormPaths,
                   q \in NormQueries, f \in NormFrags}

NormIdle ==
    /\ n_pc = "idle"
    /\ n_url = <<>>
    /\ n_once = <<>>
    /\ n_twice = <<>>

NormInit ==
    /\ n_pc = "input"
    /\ n_url \in NormInputs
    /\ n_once = <<>>
    /\ n_twice = <<>>

NormalizeOnce ==
    /\ n_pc = "input"
    /\ n_once' = normalize_url(n_url)
    /\ n_pc' = "once"
    /\ UNCHANGED <<n_url, n_twice, svars, evars, lvars, hvars>>

NormalizeTwice ==
    /\ n_pc = "once"
    /\ n_twice' = normalize_url(n_once)
    /\ n_pc' = "twice"
    /\ UNCHANGED <<n_url, n_once, svars, evars, lvars, hvars>>

NormNext == NormalizeOnce \/ NormalizeTwice

-----------------------------------------------------------------------------
(* The extraction chain on bounded pages *)

ExtractPages ==
    [ soup_ok : BOOLEAN,
      link_canonical : {NoTag},
      og_url : {NoTag},
      traf : {Raises, NoPage, RetNone, Ret(TxtJunk), Ret(TxtTraf)},
      read : {Raises, Ret(<<>>), Ret(TxtRead)},
      meta_description : {NoTag, Tag(<<>>), Tag(TxtDesc)},
      og_description : {NoTag, Tag(<<>>), Tag(TxtOg)},
      twitter_description : {NoTag, Tag(<<>>), Tag(TxtTw)},
      first_p : {NoTag, Tag(TxtP)} ]

IdlePage ==
    [ soup_ok |-> TRUE, link_canonical |-> NoTag, og_url |-> NoTag,
      traf |-> RetNone, read |-> Ret(<<>>), meta_description |-> NoTag,
      og_description |-> NoTag, twitter_description |-> NoTag, first_p |-> NoTag ]

ExtractIdle ==
    /\ e_pc = "idle"
    /\ e_traf = FALSE
    /\ e_bs = FALSE
    /\ e_page = IdlePage
    /\ e_meta = None
    /\ e_text = None

ExtractInit ==
    /\ e_pc = "input"
    /\ e_traf \in BOOLEAN
    /\ e_bs \in BOOLEAN
    /\ e_page \in ExtractPages
    /\ e_meta = None
    /\ e_text = None

RunMetaDescription ==
    /\ e_pc = "input"
    /\ e_meta' = meta_description(e_bs, e_page)
    /\ e_pc' = "meta"
    /\ UNCHANGED <<e_traf, e_bs, e_page, e_text, nvars, svars, lvars, hvars>>

RunExtractText ==
    /\ e_pc = "meta"
    /\ e_text' = ExtractText(e_traf, e_bs, e_page)
    /\ e_pc' = "done"
    /\ UNCHANGED <<e_traf, e_bs, e_page, e_meta, nvars, svars, lvars, hvars>>

ExtractNext == RunMetaDescription \/ RunExtractText

-----------------------------------------------------------------------------
(* clean_text and summarize on bounded texts *)

\* The pieces a text is made of: a word, a run of whitespace, the phrase
\* "Read MORE", a short sentence and a sentence of 150 characters, the last two
\* followed by a space.
TextTokens ==
    { <<"B","i","t","c","o","i","n">>,
      <<" ","\n","\t"," ">>,
      <<"R","e","a","d"," ","M","O","R","E">>,
      <<"I","t"," ","r","o","s","e","."," ">>,
      <<"B","i","t","c","o","i","n"," ","c","l","i","m","b","e","d"," ","a","b","o","v","e"," ","i","t","s"," ","p","r","e","v","i","o","u","s"," ","r","e","c","o","r","d"," ","o","n"," ","M","o","n","d","a","y"," ","a","s"," ","t","r","a","d","e","r","s"," ","b","e","t"," ","t","h","a","t"," ","i","n","t","e","r","e","s","t"," ","r","a","t","e","s"," ","w","i","l","l"," ","f","a","l","l"," ","a","n","d"," ","t","h","a","t"," ","n","e","w"," ","f","u","n","d","s"," ","w","i","l","l"," ","k","e","e","p"," ","b","u","y","i","n","g"," ","c","o","i","n","s"," ","e","v","e","r","y"," ","w","e","e","k","."," ">> }

\* A text has at most MaxTokens pieces.
MaxTokens == 4

TextInputs == {ConcatAll(ts) : ts \in SeqsUpTo(TextTokens, MaxTokens)}

TextIdle ==
    /\ t_pc = "idle"
    /\ t_text = <<>>
    /\ t_once = <<>>
    /\ t_twice = <<>>
    /\ t_sum = <<>>

TextInit ==
    /\ t_pc = "input"
    /\ t_text \in TextInputs
    /\ t_once = <<>>
    /\ t_twice = <<>>
    /\ t_sum = <<>>

CleanOnce ==
    /\ t_pc = "input"
    /\ t_once' = clean_text(t_text)
    /\ t_pc' = "once"
    /\ UNCHANGED <<t_text, t_twice, t_sum, nvars, svars, evars, lvars, qvars, fvars>>

CleanTwice ==
    /\ t_pc = "once"
    /\ t_twice' = clean_text(t_once)
    /\ t_pc' = "twice"
    /\ UNCHANGED <<t_text, t_once, t_sum, nvars, svars, evars, lvars, qvars, fvars>>

\* summarize(text, max_sentences=3, max_chars=420), as build_synopsis_and_canonical calls it
SummarizeText ==
    /\ t_pc = "twice"
    /\ t_sum' = summarize(t_text, 3, 420)
    /\ t_pc' = "sum"
    /\ UNCHANGED <<t_text, t_once, t_twice, nvars, svars, evars, lvars, qvars, fvars>>

TextNext == CleanOnce \/ CleanTwice \/ SummarizeText

-----------------------------------------------------------------------------
(* normalize_url on pairs of URLs that name the same article *)

EquivSchemes == { <<"h","t","t","p","s">>, <<"H","T","T","P","S">> }
EquivHosts   == { <<"e","x",".","c","o","m">>, <<"E","X",".","c","o","m">> }
EquivPaths   == { <<>>, <<"/","a">>, <<"/","a","/">>, <<"/","a","/","a","m","p">> }
EquivFrags   == { <<>>, <<"t","o","p">> }
\* Query parameters that are kept, and tracking parameters.
KeptParams     == { <<"b","=","2">>, <<"a","=","1">> }
TrackingParams == { <<"u","t","m","_","s","o","u","r","c","e","=","z">>, <<"r","e","f","=","y">> }
\* The parameters the first URL is built from.
BaseParams     == KeptParams \cup { <<"u","t","m","_","s","o","u","r","c","e","=","x">> }
AmpSuffixes    == { <<"/","a","m","p">>, <<"/","a","m","p","/">> }

\* The URL with the given parts.
UrlOf(u) ==
    u.scheme \o <<":","/","/">> \o u.host \o u.path
      \o (IF u.params = <<>> THEN <<>> ELSE <<"?">> \o Join(u.params, <<"&">>))
      \o (IF u.frag = <<>> THEN <<>> ELSE <<"#">> \o u.frag)

\* The key of a query parameter "k=v"
ParamKey(kv) == Before(kv, "=")

EquivIdle ==
    /\ q_pc = "idle"
    /\ q_a = [scheme |-> <<>>, host |-> <<>>, path |-> <<>>, params |-> <<>>, frag |-> <<>>]
    /\ q_b = q_a
    /\ q_ka = <<>>
    /\ q_kb = <<>>

EquivInit ==
    /\ q_pc = "vary"
    /\ q_a \in [ scheme : {<<"h","t","t","p","s">>}, host : {<<"e","x",".","c","o","m">>}, path : EquivPaths,
                 params : SeqsUpTo(BaseParams, MaxParams), frag : {<<>>} ]
    /\ q_b = q_a
    /\ q_ka = <<>>
    /\ q_kb = <<>>

EquivRest == <<q_a, q_ka, q_kb, q_pc, nvars, svars, evars, lvars, tvars, fvars>>

\* The second URL gets its scheme and host in another letter case.
VaryCase ==
    /\ q_pc = "vary"
    /\ \E sch \in EquivSchemes, h \in EquivHosts :
          q_b' = [q_b EXCEPT !.scheme = sch, !.host = h]
    /\ UNCHANGED EquivRest

\* The second URL gets a tracking parameter more, or one less.
VaryTracking ==
    /\ q_pc = "vary"
    /\ \/ \E t \in TrackingParams, i \in 0..Len(q_b.params) :
             /\ Len(q_b.params) <= MaxParams
             /\ q_b' = [q_b EXCEPT !.params = Take(@, i) \o <<t>> \o Drop(@, i)]
       \/ \E i \in 1..Len(q_b.params) :
             /\ ParamKey(q_b.params[i]) \in _TRACKING_PARAMS
             /\ q_b' = [q_b EXCEPT !.params = Take(@, i - 1) \o Drop(@, i)]
    /\ UNCHANGED EquivRest

\* The second URL gets two neighbouring query parameters swapped.
VaryOrder ==
    /\ q_pc = "vary"
    /\ \E i \in 1..(Len(q_b.params) - 1) :
          q_b' = [q_b EXCEPT !.params = [@ EXCEPT ![i] = q_b.params[i + 1],
                                                  ![i + 1] = q_b.params[i]]]
    /\ UNCHANGED EquivRest

\* The second URL gets another fragment, or none.
VaryFragment ==
    /\ q_pc = "vary"
    /\ \E f \in EquivFrags : q_b' = [q_b EXCEPT !.frag = f]
    /\ UNCHANGED EquivRest

\* The second URL gets one trailing /amp or /amp/ that the first has not.
VaryAmp ==
    /\ q_pc = "vary"
    /\ q_b.path = q_a.path
    /\ \E x \in AmpSuffixes : q_b' = [q_b EXCEPT !.path = @ \o x]
    /\ UNCHANGED EquivRest

NormalizeBoth ==
    /\ q_pc = "vary"
    /\ q_ka' = normalize_url(UrlOf(q_a))
    /\ q_kb' = normalize_url(UrlOf(q_b))
    /\ q_pc' = "keys"
    /\ UNCHANGED <<q_a, q_b, nvars, svars, evars, lvars, tvars, fvars>>

EquivNext == VaryCase \/ VaryTracking \/ VaryOrder \/ VaryFragment \/ VaryAmp \/ NormalizeBoth

-----------------------------------------------------------------------------
(* fetch_text for an article page, and build_synopsis_and_canonical on its
   outcome *)

\* range(3): the requests fetch_text makes at most.
FETCH_ATTEMPTS == 3
\* asyncio.sleep(1.2 * (attempt + 1)), in tenths of a second.
BACKOFF_TENTHS == 12

FetchItems == Range(fetch_rss(Feed1)) \cup Range(fetch_rss(Feed2))

NoResult == [synopsis |-> <<>>, canonical |-> None]

FetchIdle ==
    /\ f_pc = "idle"
    /\ f_item = [title |-> <<>>, link |-> <<>>]
    /\ f_libs = [traf |-> FALSE, bs |-> FALSE]
    /\ f_attempt = 0
    /\ f_requests = 0
    /\ f_slept = <<>>
    /\ f_out = NoResult

\* build_synopsis_and_canonical has called fetch_text, which enters its loop.
FetchInit ==
    /\ f_pc = "get"
    /\ f_item \in {[title |-> it.title, link |-> it.link] : it \in FetchItems}
    /\ f_libs \in [traf : BOOLEAN, bs : BOOLEAN]
    /\ f_attempt = 0
    /\ f_requests = 0
    /\ f_slept = <<>>
    /\ f_out = NoResult

FetchRest == <<f_item, f_libs, nvars, svars, evars, lvars, tvars, qvars>>

\* session.get answers with a good status: fetch_text returns the text.
FetchResponds ==
    /\ f_pc = "get"
    /\ f_requests' = f_requests + 1
    /\ f_pc' = "returned"
    /\ UNCHANGED <<f_attempt, f_slept, f_out, FetchRest>>

\* The request fails (no answer within the timeout, or a bad status) and it
\* fails again after FetchFailsRetry's sleep: waits as long as before.
FetchFailsRetry_FixedDelay ==
    /\ f_pc = "get"
    /\ f_attempt # FETCH_ATTEMPTS - 1
    /\ f_requests' = f_requests + 1
    /\ f_slept' = Append(f_slept, BACKOFF_TENTHS)
    /\ f_pc' = "sleep"
    /\ UNCHANGED <<f_attempt, f_out, FetchRest>>

\* The request fails (no answer within the timeout, or a bad status) and it
\* was not the last attempt: fetch_text sleeps 1.2 * (attempt + 1) seconds.
FetchFailsRetry ==
    /\ f_pc = "get"
    /\ f_attempt # FETCH_ATTEMPTS - 1
    /\ f_requests' = f_requests + 1
    /\ f_slept' = Append(f_slept, BACKOFF_TENTHS * (f_attempt + 1))
    /\ f_pc' = "sleep"
    /\ UNCHANGED <<f_attempt, f_out, FetchRest>>

\* The sleep ends and the loop goes to its next attempt.
FetchWakes ==
    /\ f_pc = "sleep"
    /\ f_attempt' = f_attempt + 1
    /\ f_pc' = "get"
    /\ UNCHANGED <<f_requests, f_slept, f_out, FetchRest>>

\* The request of the last attempt fails: fetch_text raises.
FetchFailsLast ==
    /\ f_pc = "get"
    /\ f_attempt = FETCH_ATTEMPTS - 1
    /\ f_requests' = f_requests + 1
    /\ f_pc' = "raised"
    /\ UNCHANGED <<f_attempt, f_slept, f_out, FetchRest>>

\* build_synopsis_and_canonical goes on with the page.
BuildFromPage ==
    /\ f_pc = "returned"
    /\ f_out' = build_synopsis_and_canonical(TRUE, f_libs.traf, f_libs.bs,
                                             PageAt(f_item.link), f_item.title)
    /\ f_pc' = "done"
    /\ UNCHANGED <<f_attempt, f_requests, f_slept, FetchRest>>

\* build_synopsis_and_canonical catches what fetch_text raised and returns.
BuildWithoutPage ==
    /\ f_pc = "raised"
    /\ f_out' = build_synopsis_and_canonical(FALSE, f_libs.traf, f_libs.bs,
                                             PageAt(f_item.link), f_item.title)
    /\ f_pc' = "done"
    /\ UNCHANGED <<f_attempt, f_requests, f_slept, FetchRest>>

FetchNext ==
    \/ FetchResponds
    \/ FetchFailsRetry
    \/ FetchWakes
    \/ FetchFailsLast
    \/ BuildFromPage
    \/ BuildWithoutPage

-----------------------------------------------------------------------------
(* Specifications *)

Init == LoopInit /\ StoreInit /\ NormIdle /\ ExtractIdle /\ TextIdle /\ EquivIdle /\ FetchIdle
Spec == Init /\ [][Next]_vars

\* Every await of a cycle ends (requests are bounded by their timeouts and
\* channel.send returns or raises) and asyncio.sleep(INTERVAL_SECONDS) ends, so
\* a step of the loop that can be taken is taken.  Every step of Next changes
\* pc or idx, and one is possible exactly where CycleAdvances allows one, so
\* the condition is WF_vars(Next), written over pc and idx.
CycleAdvances ==
    /\ pc \in {"loop", "built", "posted"} \/ (pc = "sleep" /\ cycles < MaxCycles)
    /\ pc' \in {"sleep", "loop", "built", "posted"}
    /\ idx' \in {1, idx, idx + 1}
FairSpec == Init /\ [][Next]_vars /\ WF_<<pc, idx>>(CycleAdvances)

InitNorm == NormInit /\ StoreInit /\ ExtractIdle /\ LoopIdle /\ TextIdle /\ EquivIdle /\ FetchIdle
SpecNorm == InitNorm /\ [][NormNext]_vars

InitStore == StoreInit /\ NormIdle /\ ExtractIdle /\ LoopIdle /\ TextIdle /\ EquivIdle /\ FetchIdle
SpecStore == InitStore /\ [][StoreNext]_vars

InitExtract == ExtractInit /\ NormIdle /\ StoreInit /\ LoopIdle /\ TextIdle /\ EquivIdle /\ FetchIdle
SpecExtract == InitExtract /\ [][ExtractNext]_vars

InitText == TextInit /\ NormIdle /\ StoreInit /\ ExtractIdle /\ LoopIdle /\ EquivIdle /\ FetchIdle
SpecText == InitText /\ [][TextNext]_vars

InitEquiv == EquivInit /\ NormIdle /\ StoreInit /\ ExtractIdle /\ LoopIdle /\ TextIdle /\ FetchIdle
SpecEquiv == InitEquiv /\ [][EquivNext]_vars

\* Every request is bounded by its timeout and every sleep ends, so a fetch
\* that has not come to its end takes its next step.  Every step of FetchNext
\* changes f_pc and one is possible exactly while f_pc is none of "done" and
\* "idle", so the condition is WF_vars(FetchNext), written over f_pc.
FetchAdvances ==
    /\ f_pc \in {"get", "sleep", "returned", "raised"}
    /\ f_pc' \in {"get", "sleep", "returned", "raised", "done"}
InitFetch == FetchInit /\ NormIdle /\ StoreInit /\ ExtractIdle /\ LoopIdle /\ TextIdle /\ EquivIdle
SpecFetch == InitFetch /\ [][FetchNext]_vars /\ WF_f_pc(FetchAdvances)

-----------------------------------------------------------------------------
(* Claims about the DedupeStore *)

\* The indices of s_added that a window of TITLE_MAX entries still covers.
Recent == {i \in 1..Len(s_added) : i > Len(s_added) - TITLE_MAX}

\* C3: the in-memory title window holds at most TITLE_MAX fingerprints, they
\* are the most recently added ones in insertion order, and has_title_like
\* answers true exactly for the fingerprints equal or similar to one of those
\* (so an entry that was evicted no longer flags anything).
C3_WindowBoundedFIFO ==
    /\ Len(title_fps) <= TITLE_MAX
    /\ title_fps = [i \in 1..Cardinality(Recent) |->
                        s_added[Len(s_added) - Cardinality(Recent) + i]]
    /\ \A fp \in StoreFps :
          has_title_like(title_fps, fp)
             <=> \E i \in Recent : s_added[i] = fp \/ titles_similar(s_added[i], fp)

\* One add beyond the window's size has evicted the oldest fingerprint, and a
\* fingerprint that matches only the evicted entry is no longer flagged.
C3_Witness ==
    /\ Len(s_added) = TITLE_MAX + 1
    /\ \E fp \in StoreFps :
          /\ titles_similar(s_added[1], fp)
          /\ \A i \in Recent : s_added[i] # fp /\ ~titles_similar(s_added[i], fp)
          /\ ~has_title_like(title_fps, fp)

\* C4: the Redis backend gives the same answer as the in-memory backend to
\* every call that returns.
C4_BackendsAgree == s_op.redis # "raise" => s_op.mem = s_op.redis

\* C7: once the fingerprint of "Bitcoin Hits New High" is recorded,
\* has_title_like answers true for the fingerprint of "Bitcoin hits new
\* all-time high".
C7_SecondHeadlineFlagged ==
    (s_op.op = "has_title_like" /\ s_arg = FpB /\ \E i \in 1..Len(title_fps) : title_fps[i] = FpA)
        => s_op.mem = "true"

-----------------------------------------------------------------------------
(* Claims about normalize_url *)

\* C6: normalize_url is idempotent on the bounded URLs: normalising the
\* normalised URL gives it back.
C6_NormalizeIdempotent == n_pc = "twice" => n_twice = n_once

-----------------------------------------------------------------------------
(* Claims about the extraction chain *)

\* A strategy gives text when it returns a non-empty str.
TrafGives ==
    e_traf /\ e_page.traf.kind = "text" /\ clean_text(e_page.traf.v) # <<>>
ReadGives ==
    e_bs /\ e_page.soup_ok /\ e_page.read.kind = "text" /\ clean_text(e_page.read.v) # <<>>

\* C9: the text is that of the first strategy, in the order trafilatura,
\* readability, metadata description, that gives a non-empty result; a
\* strategy that raises or gives nothing is passed over.
C9_FirstNonEmptyStrategy ==
    e_pc = "done" =>
        /\ TrafGives => e_text = Some(clean_text(e_page.traf.v))
        /\ (~TrafGives /\ ReadGives) => e_text = Some(clean_text(e_page.read.v))
        /\ (~TrafGives /\ ~ReadGives) => e_text = e_meta

\* trafilatura raises, readability gives text and is used although the page
\* also has a description.
C9_Witness ==
    /\ e_pc = "done"
    /\ e_traf /\ e_page.traf.kind = "raise"
    /\ ReadGives
    /\ Truthy(e_meta)
    /\ e_text = Some(clean_text(TxtRead))

HasContent(tag) == tag.present /\ tag.v # <<>>
SoupWorks == e_bs /\ e_page.soup_ok

\* C10 as stated: og:description first, then twitter:description, then the
\* description meta field, and the first paragraph only when none of them is
\* there.
C10_OgThenTwitterThenDescription ==
    (e_pc # "input" /\ SoupWorks) =>
        IF HasContent(e_page.og_description)
            THEN e_meta = Some(clean_text(e_page.og_description.v))
        ELSE IF HasContent(e_page.twitter_description)
            THEN e_meta = Some(clean_text(e_page.twitter_description.v))
        ELSE IF HasContent(e_page.meta_description)
            THEN e_meta = Some(clean_text(e_page.meta_description.v))
        ELSE IF HasContent(e_page.first_p)
            THEN e_meta = Some(clean_text(e_page.first_p.v))
        ELSE e_meta = None

\* C10 amended: the description meta field first, then og:description, then
\* twitter:description, a field counting when its content is not empty; the
\* first paragraph's text only when none of the three has content.
C10_DescriptionThenOgThenTwitter ==
    (e_pc # "input" /\ SoupWorks) =>
        IF HasContent(e_page.meta_description)
            THEN e_meta = Some(clean_text(e_page.meta_description.v))
        ELSE IF HasContent(e_page.og_description)
            THEN e_meta = Some(clean_text(e_page.og_description.v))
        ELSE IF HasContent(e_page.twitter_description)
            THEN e_meta = Some(clean_text(e_page.twitter_description.v))
        ELSE IF HasContent(e_page.first_p)
            THEN e_meta = Some(clean_text(e_page.first_p.v))
        ELSE e_meta = None

\* A page with all three fields: the description meta field is returned.
C10_Witness ==
    /\ e_pc = "meta" /\ SoupWorks
    /\ HasContent(e_page.meta_description)
    /\ HasContent(e_page.og_description)
    /\ HasContent(e_page.twitter_description)
    /\ e_meta = Some(TxtDesc)

-----------------------------------------------------------------------------
(* Claims about the polling loop *)

\* C1 as stated: post_embed is invoked at most once for each normalized URL
\* key.
C1_InvokedAtMostOnce == \A k \in Keys : invoked[k] <= 1

\* C1 amended: post_embed returns at most once for each normalized URL key,
\* and once it has returned for a key every later candidate with that key is
\* stopped by the has_url check.  (A call that raised may be made again.)
C1_ReturnedAtMostOnce ==
    /\ \A k \in Keys : returned[k] <= 1
    /\ (InLoop /\ returned[item.norm_link] >= 1) => has_url(url_set, item.norm_link)

\* "https://ex.com/a" has been posted and the next candidate, whose link is
\* "https://EX.com/a?utm_source=x", is about to be skipped as seen.
C1_Witness ==
    /\ InLoop
    /\ item.link = UrlA2
    /\ sent.url = UrlA
    /\ returned[item.norm_link] = 1
    /\ has_url(url_set, item.norm_link)

\* The candidate at the head of the loop passes the URL and title checks.
Eligible(it) == ~has_url(url_set, it.norm_link) /\ ~has_title_like(title_fps, it.title_fp)

\* C2: the store changes only in the step that follows the return of
\* post_embed for the candidate, and what is added is that candidate's keys;
\* a step in which post_embed raises leaves the store as it was, so the
\* candidate still passes the checks of the loop.
C2_RecordOnlyAfterReturn ==
    [][ /\ (store' # store) =>
              /\ pc = "posted"
              /\ sent = Embed(item, synopsis)
              /\ returned[item.norm_link] >= 1
              /\ url_set' \subseteq url_set \cup
                     ({normalize_url(item.norm_link)} \cup
                      (IF Truthy(canonical) THEN {normalize_url(canonical.v)} ELSE {}))
              /\ title_fps' = add_title(title_fps, item.title_fp)
        /\ (pc = "built" /\ pc' = "sleep") =>
              /\ store' = store
              /\ Eligible(item)
              /\ ~CanonicalSeen
      ]_vars

\* post_embed raised for a candidate, which a later cycle took up again and
\* posted; its keys are in the store now.
C2_Witness ==
    /\ pc = "loop"
    /\ \E i \in 1..Len(fresh) :
          /\ i < idx
          /\ invoked[fresh[i].norm_link] = 2
          /\ returned[fresh[i].norm_link] = 1
          /\ has_url(url_set, fresh[i].norm_link)

\* The page of the candidate could not be fetched, or no strategy gave text.
ExtractionFailed ==
    ~fetched \/ ~Truthy(ExtractText(trafilatura, BeautifulSoup, PageAt(item.link)))

\* C5 as stated: on total extraction failure the synopsis handed to
\* post_embed is the candidate's title.
C5_SynopsisIsTitle ==
    (pc \in {"built", "posted"} /\ ExtractionFailed) => synopsis = item.title

\* C5 amended: on total extraction failure the synopsis is empty; unless the
\* candidate's canonical URL is already in the store, the next step of the
\* loop is the call of post_embed for it, with an embed that says
\* "_Synopsis unavailable_".
C5_SynopsisUnavailable ==
    /\ []((pc \in {"built", "posted"} /\ ExtractionFailed) => synopsis = <<>>)
    /\ []((pc = "posted" /\ ExtractionFailed) => sent.description = Unavailable)
    /\ [][ (pc = "built" /\ ExtractionFailed /\ ~CanonicalSeen) =>
              /\ invoked'[item.norm_link] = invoked[item.norm_link] + 1
              /\ sent' = [title |-> item.title, url |-> item.link,
                          description |-> Unavailable]
         ]_vars

\* The page was fetched, no strategy gave text, and the candidate was posted.
C5_Witness ==
    /\ pc = "posted"
    /\ fetched
    /\ ExtractionFailed
    /\ sent.description = Unavailable

\* fp is equal or similar to an entry of the window.
InWindow(fp) ==
    \E i \in 1..Len(title_fps) : title_fps[i] = fp \/ titles_similar(title_fps[i], fp)

\* C8: a candidate that has been posted has a fingerprint neither equal nor
\* similar to an entry of the window, and no two entries of the window are
\* equal or similar to each other.
C8_NoSimilarTitlePosted ==
    /\ Len(title_fps) <= TITLE_MAX
    /\ pc = "posted" => ~InWindow(item.title_fp)
    /\ \A i, j \in 1..Len(title_fps) :
          i # j => title_fps[i] # title_fps[j] /\ ~titles_similar(title_fps[i], title_fps[j])

\* The headline "SEC sues Binance over token sales today" was passed over,
\* its link being new, because the similar "... today again" is in the window.
C8_Witness ==
    /\ pc = "loop"
    /\ \E k \in 1..Len(title_fps) : title_fps[k] = FpE
    /\ \E i \in 1..Len(fresh) :
          /\ i < idx
          /\ fresh[i].title_fp = FpD
          /\ invoked[fresh[i].norm_link] = 0
          /\ ~has_url(url_set, fresh[i].norm_link)

-----------------------------------------------------------------------------
(* Claims about clean_text and summarize *)

\* C11: clean_text is idempotent on the bounded texts: cleaning the cleaned
\* text gives it back.
C11_CleanIdempotent == t_pc \in {"twice", "sum"} => t_twice = t_once

\* C13: summarize(text, 3, 420) is never longer than 420 characters.
C13_SummaryWithinMaxChars == t_pc = "sum" => Len(t_sum) <= 420

\* A text of three long sentences, 452 characters when joined, was cut at a
\* space and ends with the ellipsis.
C13_Witness ==
    /\ t_pc = "sum"
    /\ Len(split_sentences(t_text)) = 3
    /\ Len(Join(split_sentences(t_text), <<" ">>)) > 420
    /\ Len(t_sum) > 400
    /\ t_sum[Len(t_sum)] = Ellipsis[1]

-----------------------------------------------------------------------------
(* Claims about the keys of equivalent URLs *)

\* The keys of the query parameters of a key.
QueryKeys(k) == {kv[1] : kv \in Range(parse_qsl(urlparse(k).query))}

\* C12: two URLs that differ only in the letter case of scheme and host, in
\* their tracking parameters, in the order of the other query parameters, in
\* the fragment, or in one trailing /amp or /amp/, have the same key, and
\* the key has no tracking parameter and no fragment.
C12_SameKey ==
    q_pc = "keys" =>
        /\ q_ka = q_kb
        /\ QueryKeys(q_ka) \cap _TRACKING_PARAMS = {}
        /\ \A i \in 1..Len(q_ka) : q_ka[i] # "#"

-----------------------------------------------------------------------------
(* Further claims about the DedupeStore *)

\* C14: no call removes a key from the in-memory URL set: each step leaves
\* url_set a superset of what it was, a URL that has_url answered true for is
\* still answered true for, and has_url is true for a URL right after its
\* add_url.
C14_UrlKeysNeverRemoved ==
    [][ /\ url_set \subseteq url_set'
        /\ \A u \in StoreUrls : has_url(url_set, u) => has_url(url_set', u)
        /\ s_op'.op = "add_url" => has_url(url_set', s_arg')
      ]_vars

\* Two keys are in the URL set and has_url has just answered true, while the
\* title window has lost its oldest fingerprint.
C14_Witness ==
    /\ Cardinality(url_set) = 2
    /\ s_op.op = "has_url" /\ s_op.mem = "true"
    /\ Len(s_added) > TITLE_MAX
    /\ \E i \in 1..Len(s_added) : \A k \in 1..Len(title_fps) : title_fps[k] # s_added[i]

\* C17: a second add_url or add_title with the argument of the call just
\* made changes nothing that can be observed: the URL set is the same and
\* has_title_like answers the same for every fingerprint.
C17_SecondAddIsHarmless ==
    [][ (s_op.op \in {"add_url", "add_title"} /\ s_op'.op = s_op.op /\ s_arg' = s_arg) =>
            /\ url_set' = url_set
            /\ \A fp \in StoreFps :
                  has_title_like(title_fps', fp) <=> has_title_like(title_fps, fp)
      ]_vars

\* C20: an empty fingerprint is similar to nothing, and has_title_like
\* answers false for the empty fingerprint in every state of the store.
C20_EmptyFingerprintNeverFlagged ==
    /\ \A fp \in StoreFps : ~titles_similar(<<>>, fp) /\ ~titles_similar(fp, <<>>)
    /\ (s_op.op = "has_title_like" /\ s_arg = <<>>) => s_op.mem = "false"

-----------------------------------------------------------------------------
(* Claims about fetch_text and what follows its failure *)

StrictlyIncreasing(q) == \A i \in 1..(Len(q) - 1) : q[i] < q[i + 1]

-----------------------------------------------------------------------------
(* Claims about the order of a cycle's candidates *)

\* The items of all feeds in feed order, and an item's place among them.
AllItems == Gathered(1, 1..Len(RSS_FEEDS))
FeedPos(it) == CHOOSE k \in 1..Len(AllItems) : AllItems[k] = it

SameTime(a, b) == (~a.dated /\ ~b.dated) \/ (a.dated /\ b.dated /\ a.dt = b.dt)

\* C16: the candidates of a cycle stand newest first, the undated ones after
\* every dated one, candidates with equal timestamps and undated candidates in
\* feed order; and the cycle takes them one by one in that order, posting
\* only the one it stands at.
C16_NewestFirstInFeedOrder ==
    /\ [](\A i, j \in 1..Len(fresh) : i < j =>
            /\ (fresh[i].dated /\ fresh[j].dated) => fresh[i].dt >= fresh[j].dt
            /\ fresh[j].dated => fresh[i].dated
            /\ SameTime(fresh[i], fresh[j]) => FeedPos(fresh[i]) < FeedPos(fresh[j]))
    /\ [][/\ pc # "sleep" => (fresh' = fresh /\ idx' \in {idx, idx + 1})
          /\ sent' # sent => sent' = Embed(fresh[idx], synopsis)]_vars

\* A cycle whose candidates hold two with the same timestamp and two undated
\* ones has posted an undated one after a dated one.
C16_Witness ==
    /\ pc = "posted"
    /\ ~item.dated
    /\ posted > 0
    /\ \E i, j \in 1..Len(fresh) : i < j /\ fresh[i].dated /\ fresh[i].dt = fresh[j].dt /\ fresh[j].dated
    /\ \E i, j \in 1..Len(fresh) : i < j /\ ~fresh[i].dated /\ ~fresh[j].dated

-----------------------------------------------------------------------------
(* Claims about failures inside a cycle *)

InCycle == pc \in {"loop", "built", "posted"}

\* C18: the candidates of a cycle are the fresh items of exactly the feeds
\* whose fetch returned; when post_embed raises the loop goes to its sleep with
\* the store as it was; every cycle reaches the sleep, and from the sleep the
\* next cycle starts (while the run has cycles left).
C18_NoFailureStopsTheLoop ==
    /\ [](InCycle =>
            \E now \in Nows :
                Range(fresh) = UNION {Range(Fresh(fetch_rss(RSS_FEEDS[f]), now)) : f \in answered})
    /\ [][(invoked' # invoked /\ returned' = returned) =>
              (pc' = "sleep" /\ UNCHANGED store)]_vars
    /\ (InCycle ~> pc = "sleep")
    /\ \A c \in 0..(MaxCycles - 1) : (pc = "sleep" /\ cycles = c) ~> (pc = "loop" /\ cycles = c + 1)

\* After a cycle in which post_embed raised, a cycle runs in which the first
\* feed's fetch failed and the second feed's items are the candidates.
C18_Witness ==
    /\ pc = "loop"
    /\ cycles > 1
    /\ answered = {2}
    /\ fresh # <<>>
    /\ \E k \in Keys : invoked[k] > returned[k]

-----------------------------------------------------------------------------
(* Claims about the canonical URL as a dedupe key *)

\* C19: the canonical URL is looked up only for a candidate whose link and
\* title are new; a candidate whose canonical URL the store has is passed over
\* without a call of post_embed and without a change of the store; and once
\* the keys of a posted candidate with a canonical URL are recorded, the
\* store has that canonical URL.
C19_CanonicalIsDedupeKey ==
    /\ [](pc = "built" =>
            (~has_url(url_set, item.norm_link) /\ ~has_title_like(title_fps, item.title_fp)))
    /\ [][(pc = "built" /\ Truthy(canonical) /\ has_url(url_set, canonical.v)) =>
              (pc' = "loop" /\ idx' = idx + 1 /\ UNCHANGED <<store, sent, invoked, returned, posted>>)]_vars
    /\ [][(pc = "posted" /\ Truthy(canonical)) =>
              (has_url(url_set', canonical.v) /\ has_url(url_set', item.norm_link))]_vars

\* A candidate with a new link and a new title whose page names, as its
\* canonical URL, an article posted before.
C19_Witness ==
    /\ pc = "built"
    /\ Truthy(canonical)
    /\ has_url(url_set, canonical.v)
    /\ canonical.v # item.norm_link
    /\ \E k \in Keys : returned[k] > 0 /\ has_url({k}, canonical.v)
====
